---- MODULE Spec2Model ----
(***************************************************************************)
(* Tyre inventory page (src/src/app/page.tsx, the variant without a        *)
(* section field, and src/unnamed/part_000, the variant with one).         *)
(*                                                                         *)
(* A client session is one mounted Home component.  Its React state is the *)
(* in-memory list `tyres`, the add form, the visible `error` and the       *)
(* per-row `removeQuantities`.  Every handler is an async function: it     *)
(* runs synchronously up to its store call (reading the `tyres` of the     *)
(* render it was created in), the store executes the call at some later    *)
(* moment, and the continuation after `await` runs when the response       *)
(* arrives, still holding the `tyres` captured at the start.               *)
(*                                                                         *)
(* Strings are sequences of one-character strings.                         *)
(***************************************************************************)
EXTENDS Integers, Sequences, FiniteSets, TLC

----------------------------------------------------------------------------
(* Bounds of the model *)

\* longest input string of the validation specification
MaxLen == 4
\* store calls one session may have in flight
MaxPending == 2
\* rows the store ever holds (ids are never reused)
MaxId == 3
\* quantities are capped in the guards of add and withdraw
MaxQty == 3
\* user events (submissions, removal-input edits, Remove clicks) of a run
MaxOps == 2
\* rows of a table of the display specification
MaxRows == 3

----------------------------------------------------------------------------
(* Characters and strings *)

Digit == {"0", "1", "2", "3", "4", "5", "6", "7", "8", "9"}

LowerSeq == <<"a", "b", "c", "d", "e", "f", "g", "h", "i", "j", "k", "l", "m",
              "n", "o", "p", "q", "r", "s", "t", "u", "v", "w", "x", "y", "z">>

UpperSeq == <<"A", "B", "C", "D", "E", "F", "G", "H", "I", "J", "K", "L", "M",
              "N", "O", "P", "Q", "R", "S", "T", "U", "V", "W", "X", "Y", "Z">>

Lower == {LowerSeq[i] : i \in 1..26}

Upper == {UpperSeq[i] : i \in 1..26}

Letter == Lower \cup Upper

AlphaNum == Letter \cup Digit

\* String.prototype.toUpperCase, one character
ToUpperChar(c) ==
    IF c \in Lower THEN UpperSeq[CHOOSE i \in 1..26 : LowerSeq[i] = c] ELSE c

toUpperCase(str) == [i \in 1..Len(str) |-> ToUpperChar(str[i])]

\* value of a decimal digit
DigitVal(c) ==
    CASE c = "0" -> 0 [] c = "1" -> 1 [] c = "2" -> 2 [] c = "3" -> 3
      [] c = "4" -> 4 [] c = "5" -> 5 [] c = "6" -> 6 [] c = "7" -> 7
      [] c = "8" -> 8 [] c = "9" -> 9

----------------------------------------------------------------------------
(* Regular expressions of the validators: an anchored pattern ^ ... $ is a *)
(* sequence of atoms, each a character class with a repetition {min,max}.  *)

RECURSIVE MatchFrom(_, _, _, _)
MatchFrom(pat, i, str, j) ==
    IF i > Len(pat)
    THEN j = Len(str) + 1
    ELSE \E k \in pat[i].min .. pat[i].max :
            /\ j + k - 1 <= Len(str)
            /\ \A n \in j .. (j + k - 1) : str[n] \in pat[i].cls
            /\ MatchFrom(pat, i + 1, str, j + k)

RegexTest(pat, str) == MatchFrom(pat, 1, str, 1)

\* /^\d{3}$/
validateTyreWidth(value) ==
    RegexTest(<<[cls |-> Digit, min |-> 3, max |-> 3]>>, value)

\* /^\d{2}$/
validateRatio(value) ==
    RegexTest(<<[cls |-> Digit, min |-> 2, max |-> 2]>>, value)

\* validateRim without the anchors: /[A-Za-z0-9]{2,3}/
validateRim_Unanchored(value) ==
    \E a \in 1..Len(value), b \in 1..Len(value) :
        /\ b - a + 1 \in 2..3
        /\ \A n \in a..b : value[n] \in AlphaNum

\* /^[A-Za-z0-9]{2,3}$/
validateRim(value) ==
    RegexTest(<<[cls |-> AlphaNum, min |-> 2, max |-> 3]>>, value)

\* /^[A-Za-z]\d$/
validateSection(value) ==
    RegexTest(<<[cls |-> Letter, min |-> 1, max |-> 1],
                [cls |-> Digit, min |-> 1, max |-> 1]>>, value)

----------------------------------------------------------------------------
(* parseInt(str, 10): skip leading white space, read an optional sign, then *)
(* the longest run of digits; NaN when that run is empty.                   *)

NaN == [nan |-> TRUE, n |-> 0]

Num(n) == [nan |-> FALSE, n |-> n]

RECURSIVE SkipSpace(_, _)
SkipSpace(str, j) ==
    IF j <= Len(str) /\ str[j] = " " THEN SkipSpace(str, j + 1) ELSE j

RECURSIVE DigitRun(_, _, _)
\* value of the digits from position j on, acc being the value read so far
DigitRun(str, j, acc) ==
    IF j <= Len(str) /\ str[j] \in Digit
    THEN DigitRun(str, j + 1, 10 * acc + DigitVal(str[j]))
    ELSE acc

parseInt(str) ==
    LET b == SkipSpace(str, 1)
        signed == b <= Len(str) /\ str[b] \in {"-", "+"}
        d == IF signed THEN b + 1 ELSE b
    IN  IF d <= Len(str) /\ str[d] \in Digit
        THEN Num((IF signed /\ str[b] = "-" THEN -1 ELSE 1) * DigitRun(str, d, 0))
        ELSE NaN

----------------------------------------------------------------------------
(* Data *)

\* the two client sessions the model can run
Clients == {1, 2}

\* the section field of a row of the variant without sections
NoSection == <<>>

\* interface Tyre; created_at is opaque to every handler and left out
Tyre(id, w, r, rim, sec, qty) ==
    [id |-> id, tyre_width |-> w, ratio |-> r, rim |-> rim, section |-> sec,
     quantity |-> qty]

NoTyre == Tyre(0, <<>>, <<>>, <<>>, <<>>, 0)

\* the add form: tyreWidth, ratio, rim, section, quantity (all strings)
Form(w, r, rim, sec, q) == [w |-> w, r |-> r, rim |-> rim, sec |-> sec, q |-> q]

\* useState('') for the text fields, useState("1") for quantity
BlankForm == Form(<<>>, <<>>, <<>>, <<>>, <<"1">>)

MsgNone == ""
MsgWidth == "Tyre Width must be exactly 3 digits."
MsgRatio == "Ratio must be exactly 2 digits."
MsgRim == "Rim must be 2 to 3 alphanumeric characters."
MsgSection == "Section must be one letter followed by one number (e.g., A1)."
MsgQuantity == "Quantity must be at least 1."
\* error.message of a failed store call
MsgStore == "store error"

\* a store call in flight: the handler that issued it, the call, the list
\* the handler captured, and the store's answer once it has executed
Request(kind, call, id, qty, ins, removeQty, snap) ==
    [kind |-> kind, call |-> call, id |-> id, quantity |-> qty, ins |-> ins,
     removeQty |-> removeQty, snap |-> snap, phase |-> "sent", data |-> NoTyre]

NoRequest == Request("none", "none", 0, 0, NoTyre, 0, <<>>)

\* the select-all of the mount effect: "idle" (session not mounted), "sent",
\* "data" / "error" (answered, continuation not yet run), "resolved" /
\* "rejected" (continuation run)
Fetch(phase, data) == [phase |-> phase, data |-> data]

\* the search fields: searchWidth, searchRatio, searchRim, searchSection
Terms(w, r, rim, sec) == [w |-> w, r |-> r, rim |-> rim, sec |-> sec]

\* useState('') for every search field
NoTerms == Terms(<<>>, <<>>, <<>>, <<>>)

VARIABLES
    variant,            \* "plain" (page.tsx) or "section" (part_000)
    active,             \* the sessions that are mounted
    store,              \* the tyres table, in id order
    nextId,             \* the id the store gives the next inserted row
    tyres,              \* per session: the in-memory list
    fetch,              \* per session: the select-all of the mount effect
    form,               \* per session: the add form
    error,              \* per session: the visible error
    removeQuantities,   \* per session: id -> pending removal quantity
    pending,            \* per session: store calls in flight, in issue order
    search,             \* per session: the search terms, one per field
    sortOrder,          \* per session: "asc" or "desc"
    ops,                \* user events handled so far (history, bounds a run)
    last                \* the last handler step that settled (history)

vars == <<variant, active, store, nextId, tyres, fetch, form, error,
          removeQuantities, pending, search, sortOrder, ops, last>>

Event(ev, s, req) == [ev |-> ev, client |-> s, req |-> req]

----------------------------------------------------------------------------
(* Sequence helpers (Array.prototype.map / filter / find) *)

RECURSIVE SeqFilterOut(_, _)
\* list.filter(tyre => tyre.id !== id)
SeqFilterOut(list, id) ==
    IF list = <<>> THEN <<>>
    ELSE IF Head(list).id = id THEN SeqFilterOut(Tail(list), id)
         ELSE <<Head(list)>> \o SeqFilterOut(Tail(list), id)

\* list.map(tyre => tyre.id === id ? { ...tyre, quantity: q } : tyre)
SetQuantity(list, id, q) ==
    [i \in 1..Len(list) |->
        IF list[i].id = id THEN [list[i] EXCEPT !.quantity = q] ELSE list[i]]

\* list.find(tyre => tyre.id === id), as an index; 0 when there is none
FindById(list, id) ==
    LET M == {i \in 1..Len(list) : list[i].id = id}
    IN  IF M = {} THEN 0 ELSE CHOOSE i \in M : \A j \in M : i <= j

RemoveAt(seq, i) == SubSeq(seq, 1, i - 1) \o SubSeq(seq, i + 1, Len(seq))

----------------------------------------------------------------------------
(* The store: the four operations of the tyres table.  An operation on an  *)
(* id that matches no row changes nothing and reports no error.            *)

\* .from('tyres').select('*')
SelectAll(table) == table

\* .insert([{...}]).select(): the row gets the next id and is returned
InsertRow(table, id, ins) == Append(table, [ins EXCEPT !.id = id])

\* .update({ quantity }).eq('id', id)
UpdateQuantity(table, id, q) == SetQuantity(table, id, q)

\* .delete().eq('id', id)
DeleteRow(table, id) == SeqFilterOut(table, id)

----------------------------------------------------------------------------
(* handleAddTyre, up to its store call *)

\* ValidationError with the quantity check made before the format checks
ValidationError_QuantityFirst(f, v) ==
    IF parseInt(f.q).nan \/ parseInt(f.q).n < 1 THEN MsgQuantity
    ELSE IF ~validateTyreWidth(f.w) THEN MsgWidth
    ELSE IF ~validateRatio(f.r) THEN MsgRatio
    ELSE IF ~validateRim(f.rim) THEN MsgRim
    ELSE IF v = "section" /\ ~validateSection(f.sec) THEN MsgSection
    ELSE MsgNone

\* the checks before the lookup: the message of the first failing check,
\* MsgNone when all pass
ValidationError(f, v) ==
    IF ~validateTyreWidth(f.w) THEN MsgWidth
    ELSE IF ~validateRatio(f.r) THEN MsgRatio
    ELSE IF ~validateRim(f.rim) THEN MsgRim
    ELSE IF v = "section" /\ ~validateSection(f.sec) THEN MsgSection
    ELSE IF parseInt(f.q).nan \/ parseInt(f.q).n < 1 THEN MsgQuantity
    ELSE MsgNone

\* SameSpecs comparing the section as typed
SameSpecs_CaseSensitive(tyre, f, v) ==
    /\ tyre.tyre_width = f.w
    /\ tyre.ratio = f.r
    /\ tyre.rim = f.rim
    /\ v = "section" => tyre.section = f.sec

\* the predicate of tyres.find(...) in handleAddTyre
SameSpecs(tyre, f, v) ==
    /\ tyre.tyre_width = f.w
    /\ tyre.ratio = f.r
    /\ tyre.rim = f.rim
    /\ v = "section" => toUpperCase(tyre.section) = toUpperCase(f.sec)

\* existingTyre, as an index into the list; 0 when find returns undefined
existingTyre(list, f, v) ==
    LET M == {i \in 1..Len(list) : SameSpecs(list[i], f, v)}
    IN  IF M = {} THEN 0 ELSE CHOOSE i \in M : \A j \in M : i <= j

\* UpsertRequest writing the delta over the quantity instead of adding it
UpsertRequest_Overwrites(list, f, v) ==
    LET quantityNumber == parseInt(f.q).n
        e == existingTyre(list, f, v)
    IN  IF e # 0
        THEN Request("add", "update", list[e].id, quantityNumber, NoTyre, 0, list)
        ELSE Request("add", "insert", 0, quantityNumber,
                     Tyre(0, f.w, f.r, f.rim,
                          IF v = "section" THEN toUpperCase(f.sec) ELSE NoSection,
                          quantityNumber),
                     0, list)

\* UpsertRequest inserting the section as it was typed
UpsertRequest_AsTyped(list, f, v) ==
    LET quantityNumber == parseInt(f.q).n
        e == existingTyre(list, f, v)
    IN  IF e # 0
        THEN Request("add", "update", list[e].id, list[e].quantity + quantityNumber,
                     NoTyre, 0, list)
        ELSE Request("add", "insert", 0, quantityNumber,
                     Tyre(0, f.w, f.r, f.rim,
                          IF v = "section" THEN f.sec ELSE NoSection,
                          quantityNumber),
                     0, list)

\* the store call handleAddTyre issues for a valid form
UpsertRequest(list, f, v) ==
    LET quantityNumber == parseInt(f.q).n
        e == existingTyre(list, f, v)
    IN  IF e # 0
        THEN Request("add", "update", list[e].id, list[e].quantity + quantityNumber,
                     NoTyre, 0, list)
        ELSE Request("add", "insert", 0, quantityNumber,
                     Tyre(0, f.w, f.r, f.rim,
                          IF v = "section" THEN toUpperCase(f.sec) ELSE NoSection,
                          quantityNumber),
                     0, list)

----------------------------------------------------------------------------
(* handleRemoveTyre, up to its store call, and the removal input *)

\* onChange of the removal input: parseInt(e.target.value, 10) || 1
ParseRemoveInput(txt) ==
    LET v == parseInt(txt)
    IN  IF v.nan \/ v.n = 0 THEN 1 ELSE v.n

\* onClick of Remove: removeQuantities[tyre.id] || 1
RemoveQtyOf(rq, id) ==
    IF id \in DOMAIN rq /\ rq[id] # 0 THEN rq[id] ELSE 1

\* SetRemoveQty that replaces the whole map instead of spreading prev
SetRemoveQty_Only(rq, id, q) == [i \in {id} |-> q]

\* setRemoveQuantities(prev => ({ ...prev, [id]: q }))
SetRemoveQty(rq, id, q) ==
    [i \in (DOMAIN rq) \cup {id} |-> IF i = id THEN q ELSE rq[i]]

\* RemovesAll with > in place of >=
RemovesAll_Strict(removeQty, quantity) == removeQty > quantity

\* removeQty >= tyreToRemove.quantity
RemovesAll(removeQty, quantity) == removeQty >= quantity

\* the store call handleRemoveTyre issues; NoRequest when the id is not found
WithdrawRequest(list, id, removeQty) ==
    LET t == FindById(list, id)
    IN  IF t = 0 THEN NoRequest
        ELSE IF RemovesAll(removeQty, list[t].quantity)
        THEN Request("remove", "delete", id, 0, NoTyre, removeQty, list)
        ELSE Request("remove", "update", id, list[t].quantity - removeQty,
                     NoTyre, removeQty, list)

----------------------------------------------------------------------------
(* The continuations after await *)

\* AddSettledList appending the row as it was sent instead of the returned row
AddSettledList_AppendsSent(p) ==
    IF p.call = "update"
    THEN SetQuantity(p.snap, p.id, p.quantity)
    ELSE Append(p.snap, p.ins)

\* the list handleAddTyre sets after a successful store call
AddSettledList(p) ==
    IF p.call = "update"
    THEN SetQuantity(p.snap, p.id, p.quantity)
    ELSE Append(p.snap, p.data)

\* RemoveSettledList that drops the record also after a partial withdraw
RemoveSettledList_Drops(p) == SeqFilterOut(p.snap, p.id)

\* the list handleRemoveTyre sets after a successful store call
RemoveSettledList(p) ==
    IF p.call = "delete"
    THEN SeqFilterOut(p.snap, p.id)
    ELSE SetQuantity(p.snap, p.id, p.quantity)

\* FailedList of a handler that sets the list before it looks at the error
FailedList_Applies(current, p) ==
    IF p.call = "delete" THEN SeqFilterOut(p.snap, p.id)
    ELSE IF p.call = "update" THEN SetQuantity(p.snap, p.id, p.quantity)
    ELSE Append(p.snap, p.ins)

\* the list after the continuation of a failed store call
FailedList(current, p) == current

\* the visible error after the continuation of a failed add
AddFailedError(current, msg) == msg

\* the visible error after the continuation of a failed remove (console only)
RemoveFailedError(current, msg) == current

----------------------------------------------------------------------------
(* Inputs the sessions type *)

W205 == <<"2", "0", "5">>
W195 == <<"1", "9", "5">>
R55 == <<"5", "5">>
Rim16 == <<"1", "6">>
Rim17C == <<"1", "7", "C">>
SecA1 == <<"A", "1">>
SecLowerA1 == <<"a", "1">>
SecB2 == <<"B", "2">>

\* what is typed into the add form of the variant with sections: three valid
\* submissions and submissions failing one or several checks
SectionForms ==
    { Form(W205, R55, Rim16, SecA1, <<"1">>),
      Form(W205, R55, Rim16, SecLowerA1, <<"2">>),
      Form(W195, R55, Rim17C, SecB2, <<"1">>),
      BlankForm,
      Form(W205, <<"5">>, <<"1">>, SecA1, <<"1">>),
      Form(W205, R55, Rim16, <<"1", "A">>, <<"0">>) }

\* the add form of the variant without sections has no section field
Forms(v) ==
    IF v = "section" THEN SectionForms
    ELSE {[f EXCEPT !.sec = NoSection] : f \in SectionForms}

\* what is typed into a removal input
RemoveTexts == { <<>>, <<"0">>, <<"1">>, <<"-", "1">>, <<"x">> }

\* the tables a run starts from: at most one row per key, quantities >= 1
InitStores(v) ==
    { <<>>,
      <<Tyre(1, W205, R55, Rim16, IF v = "section" THEN SecA1 ELSE NoSection, 2)>> }

\* ids of the rows of a list
IdsOf(list) == {list[i].id : i \in 1..Len(list)}

----------------------------------------------------------------------------
(* Initial states *)

InitWith(act, tables) ==
    /\ variant \in {"plain", "section"}
    /\ active = act
    /\ store \in tables
    /\ nextId = Len(store) + 1
    /\ tyres = [s \in Clients |-> <<>>]
    /\ fetch = [s \in Clients |-> Fetch(IF s \in act THEN "sent" ELSE "idle", <<>>)]
    /\ form = [s \in Clients |-> BlankForm]
    /\ error = [s \in Clients |-> MsgNone]
    /\ removeQuantities = [s \in Clients |-> <<>>]
    /\ pending = [s \in Clients |-> <<>>]
    /\ search = [s \in Clients |-> NoTerms]
    /\ sortOrder = [s \in Clients |-> "asc"]
    /\ ops = 0
    /\ last = Event("init", 0, NoRequest)

\* one session: the mount effect has just issued its select-all
Init == InitWith({1}, InitStores(variant))

----------------------------------------------------------------------------
(* The mount effect: fetchTyres *)

\* the store executes the select-all and answers with its rows
FetchSelect(s) ==
    /\ s \in active
    /\ fetch[s].phase = "sent"
    /\ fetch' = [fetch EXCEPT ![s] = Fetch("data", SelectAll(store))]
    /\ UNCHANGED <<search, sortOrder, variant, active, store, nextId, tyres, form, error,
                   removeQuantities, pending, last, ops>>

\* the select-all fails
FetchSelectFails(s) ==
    /\ s \in active
    /\ fetch[s].phase = "sent"
    /\ fetch' = [fetch EXCEPT ![s] = Fetch("error", <<>>)]
    /\ UNCHANGED <<search, sortOrder, variant, active, store, nextId, tyres, form, error,
                   removeQuantities, pending, last, ops>>

\* the continuation of fetchTyres with data: setTyres(data || [])
FetchResolved(s) ==
    /\ s \in active
    /\ fetch[s].phase = "data"
    /\ tyres' = [tyres EXCEPT ![s] = fetch[s].data]
    /\ fetch' = [fetch EXCEPT ![s] = Fetch("resolved", <<>>)]
    /\ last' = Event("fetched", s, NoRequest)
    /\ UNCHANGED <<search, sortOrder, variant, active, store, nextId, form, error,
                   removeQuantities, pending, ops>>

\* the continuation of fetchTyres with an error: console.error, return
FetchRejected(s) ==
    /\ s \in active
    /\ fetch[s].phase = "error"
    /\ fetch' = [fetch EXCEPT ![s] = Fetch("rejected", <<>>)]
    /\ last' = Event("fetch failed", s, NoRequest)
    /\ UNCHANGED <<search, sortOrder, variant, active, store, nextId, tyres, form, error,
                   removeQuantities, pending, ops>>

----------------------------------------------------------------------------
(* The add form *)

(* The session fills in the form (the onChange handlers of its inputs, f   *)
(* being what they leave in tyreWidth, ratio, rim, section and quantity)   *)
(* and submits it.                                                         *)

\* handleAddTyre when a check fails: setError, return
AddRejected(s, f) ==
    /\ s \in active
    /\ ops < MaxOps
    /\ ValidationError(f, variant) # MsgNone
    /\ form' = [form EXCEPT ![s] = f]
    /\ error' = [error EXCEPT ![s] = ValidationError(f, variant)]
    /\ ops' = ops + 1
    /\ last' = Event("rejected", s, NoRequest)
    /\ UNCHANGED <<search, sortOrder, variant, active, store, nextId, tyres, fetch,
                   removeQuantities, pending>>

\* handleAddTyre when all checks pass: look the specs up in the list of this
\* render and issue the update or the insert
AddIssued(s, f) ==
    /\ s \in active
    /\ ops < MaxOps
    /\ ValidationError(f, variant) = MsgNone
    /\ Len(pending[s]) < MaxPending
    /\ UpsertRequest(tyres[s], f, variant).quantity <= MaxQty
    /\ form' = [form EXCEPT ![s] = f]
    /\ pending' = [pending EXCEPT
                     ![s] = Append(@, UpsertRequest(tyres[s], f, variant))]
    /\ ops' = ops + 1
    /\ UNCHANGED <<search, sortOrder, variant, active, store, nextId, tyres, fetch, error,
                   removeQuantities, last>>

----------------------------------------------------------------------------
(* The removal controls of a displayed row *)

\* onChange of the removal input of row id
TypeRemove(s, id, txt) ==
    /\ s \in active
    /\ id \in IdsOf(tyres[s])
    /\ ops < MaxOps
    /\ removeQuantities' = [removeQuantities EXCEPT
                              ![s] = SetRemoveQty(@, id, ParseRemoveInput(txt))]
    /\ ops' = ops + 1
    /\ UNCHANGED <<search, sortOrder, variant, active, store, nextId, tyres, fetch, form, error,
                   pending, last>>

\* handleRemoveTyre(id, removeQty) up to its store call
handleRemoveTyre(s, id, removeQty) ==
    LET p == WithdrawRequest(tyres[s], id, removeQty)
    IN  /\ ops < MaxOps
        /\ ops' = ops + 1
        /\ IF p = NoRequest
           THEN /\ last' = Event("not found", s, NoRequest)
                /\ UNCHANGED <<search, sortOrder, variant, active, store, nextId, tyres, fetch,
                               form, error, removeQuantities, pending>>
           ELSE /\ Len(pending[s]) < MaxPending
                /\ p.quantity <= MaxQty
                /\ pending' = [pending EXCEPT ![s] = Append(@, p)]
                /\ UNCHANGED <<search, sortOrder, variant, active, store, nextId, tyres, fetch,
                               form, error, removeQuantities, last>>

\* onClick of the Remove button of row id
ClickRemove(s, id) ==
    /\ s \in active
    /\ id \in IdsOf(tyres[s])
    /\ handleRemoveTyre(s, id, RemoveQtyOf(removeQuantities[s], id))

----------------------------------------------------------------------------
(* The store executes a call in flight (calls may be executed and answered *)
(* in any order)                                                           *)

Answered(s, i, phase, data) ==
    pending' = [pending EXCEPT ![s][i].phase = phase, ![s][i].data = data]

StoreUpdates(s, i) ==
    /\ s \in active
    /\ i \in 1..Len(pending[s])
    /\ pending[s][i].phase = "sent"
    /\ pending[s][i].call = "update"
    /\ store' = UpdateQuantity(store, pending[s][i].id, pending[s][i].quantity)
    /\ Answered(s, i, "ok", NoTyre)
    /\ UNCHANGED <<search, sortOrder, variant, active, nextId, tyres, fetch, form, error,
                   removeQuantities, last, ops>>

StoreInserts(s, i) ==
    /\ s \in active
    /\ i \in 1..Len(pending[s])
    /\ pending[s][i].phase = "sent"
    /\ pending[s][i].call = "insert"
    /\ nextId <= MaxId
    /\ store' = InsertRow(store, nextId, pending[s][i].ins)
    /\ nextId' = nextId + 1
    /\ Answered(s, i, "ok", [pending[s][i].ins EXCEPT !.id = nextId])
    /\ UNCHANGED <<search, sortOrder, variant, active, tyres, fetch, form, error,
                   removeQuantities, last, ops>>

StoreDeletes(s, i) ==
    /\ s \in active
    /\ i \in 1..Len(pending[s])
    /\ pending[s][i].phase = "sent"
    /\ pending[s][i].call = "delete"
    /\ store' = DeleteRow(store, pending[s][i].id)
    /\ Answered(s, i, "ok", NoTyre)
    /\ UNCHANGED <<search, sortOrder, variant, active, nextId, tyres, fetch, form, error,
                   removeQuantities, last, ops>>

\* the call fails: the table is left as it was and an error is answered
StoreFails(s, i) ==
    /\ s \in active
    /\ i \in 1..Len(pending[s])
    /\ pending[s][i].phase = "sent"
    /\ Answered(s, i, "err", NoTyre)
    /\ UNCHANGED <<search, sortOrder, variant, active, store, nextId, tyres, fetch, form, error,
                   removeQuantities, last, ops>>

----------------------------------------------------------------------------
(* The handlers resume after await *)

\* handleAddTyre after a successful update or insert: setTyres from the
\* captured list, reset the form, clear the error
AddSettled(s, i) ==
    /\ s \in active
    /\ i \in 1..Len(pending[s])
    /\ pending[s][i].kind = "add"
    /\ pending[s][i].phase = "ok"
    /\ tyres' = [tyres EXCEPT ![s] = AddSettledList(pending[s][i])]
    /\ form' = [form EXCEPT ![s] = BlankForm]
    /\ error' = [error EXCEPT ![s] = MsgNone]
    /\ pending' = [pending EXCEPT ![s] = RemoveAt(@, i)]
    /\ last' = Event("settled", s, pending[s][i])
    /\ UNCHANGED <<search, sortOrder, variant, active, store, nextId, fetch, removeQuantities, ops>>

\* AddFailed of a handler that sends its call again when the store fails
AddFailed_Retries(s, i) ==
    /\ s \in active
    /\ i \in 1..Len(pending[s])
    /\ pending[s][i].kind = "add"
    /\ pending[s][i].phase = "err"
    /\ error' = [error EXCEPT ![s] = AddFailedError(@, MsgStore)]
    /\ pending' = [pending EXCEPT ![s][i].phase = "sent"]
    /\ last' = Event("failed", s, pending[s][i])
    /\ UNCHANGED <<search, sortOrder, variant, active, store, nextId, tyres, fetch, form,
                   removeQuantities, ops>>

\* handleAddTyre after a failed update or insert: setError(message)
AddFailed(s, i) ==
    /\ s \in active
    /\ i \in 1..Len(pending[s])
    /\ pending[s][i].kind = "add"
    /\ pending[s][i].phase = "err"
    /\ tyres' = [tyres EXCEPT ![s] = FailedList(@, pending[s][i])]
    /\ error' = [error EXCEPT ![s] = AddFailedError(@, MsgStore)]
    /\ pending' = [pending EXCEPT ![s] = RemoveAt(@, i)]
    /\ last' = Event("failed", s, pending[s][i])
    /\ UNCHANGED <<search, sortOrder, variant, active, store, nextId, fetch, form,
                   removeQuantities, ops>>

\* handleRemoveTyre after a successful delete or update: setTyres from the
\* captured list, reset the removal input of the row to 1
RemoveSettled(s, i) ==
    /\ s \in active
    /\ i \in 1..Len(pending[s])
    /\ pending[s][i].kind = "remove"
    /\ pending[s][i].phase = "ok"
    /\ tyres' = [tyres EXCEPT ![s] = RemoveSettledList(pending[s][i])]
    /\ removeQuantities' = [removeQuantities EXCEPT
                              ![s] = SetRemoveQty(@, pending[s][i].id, 1)]
    /\ pending' = [pending EXCEPT ![s] = RemoveAt(@, i)]
    /\ last' = Event("settled", s, pending[s][i])
    /\ UNCHANGED <<search, sortOrder, variant, active, store, nextId, fetch, form, error, ops>>

\* handleRemoveTyre after a failed delete or update: console.error, return
RemoveFailed(s, i) ==
    /\ s \in active
    /\ i \in 1..Len(pending[s])
    /\ pending[s][i].kind = "remove"
    /\ pending[s][i].phase = "err"
    /\ tyres' = [tyres EXCEPT ![s] = FailedList(@, pending[s][i])]
    /\ error' = [error EXCEPT ![s] = RemoveFailedError(@, MsgStore)]
    /\ pending' = [pending EXCEPT ![s] = RemoveAt(@, i)]
    /\ last' = Event("failed", s, pending[s][i])
    /\ UNCHANGED <<search, sortOrder, variant, active, store, nextId, fetch, form,
                   removeQuantities, ops>>

----------------------------------------------------------------------------
(* Specifications *)

Next ==
    \E s \in Clients :
        \/ FetchSelect(s)
        \/ FetchSelectFails(s)
        \/ FetchResolved(s)
        \/ FetchRejected(s)
        \/ \E f \in Forms(variant) : AddRejected(s, f)
        \/ \E f \in Forms(variant) : AddIssued(s, f)
        \/ \E id \in 1..MaxId, txt \in RemoveTexts : TypeRemove(s, id, txt)
        \/ \E id \in 1..MaxId : ClickRemove(s, id)
        \/ \E i \in 1..MaxPending :
              \/ StoreUpdates(s, i)
              \/ StoreInserts(s, i)
              \/ StoreDeletes(s, i)
              \/ StoreFails(s, i)
              \/ AddSettled(s, i)
              \/ AddFailed(s, i)
              \/ RemoveSettled(s, i)
              \/ RemoveFailed(s, i)

\* one client session, with every interleaving its async handlers allow
Spec == Init /\ [][Next]_vars

\* handleRemoveTyre called with any id and any quantity >= 1, as the contract of
\* the withdraw operation allows (the Remove buttons pass displayed ids only)
CallRemove(s, id, q) ==
    /\ s \in active
    /\ handleRemoveTyre(s, id, q)

\* the tables the sessions that withdraw start from: one row, or two rows
\* with different keys
HandlerStores(v) ==
    { <<Tyre(1, W205, R55, Rim16, IF v = "section" THEN SecA1 ELSE NoSection, 2)>>,
      <<Tyre(1, W205, R55, Rim16, IF v = "section" THEN SecA1 ELSE NoSection, 2),
        Tyre(2, W195, R55, Rim17C, IF v = "section" THEN SecB2 ELSE NoSection, 1)>> }

InitHandlers == InitWith({1}, HandlerStores(variant))

\* a session that withdraws, through the Remove buttons and by direct calls
NextHandlers ==
    \E s \in Clients :
        \/ FetchSelect(s)
        \/ FetchSelectFails(s)
        \/ FetchResolved(s)
        \/ FetchRejected(s)
        \/ \E id \in 1..MaxId, txt \in RemoveTexts : TypeRemove(s, id, txt)
        \/ \E id \in 1..MaxId : ClickRemove(s, id)
        \/ \E id \in 1..MaxId, q \in 1..MaxQty : CallRemove(s, id, q)
        \/ \E i \in 1..MaxPending :
              \/ StoreUpdates(s, i)
              \/ StoreDeletes(s, i)
              \/ StoreFails(s, i)
              \/ RemoveSettled(s, i)
              \/ RemoveFailed(s, i)

SpecHandlers == InitHandlers /\ [][NextHandlers]_vars

\* two client sessions mounting on a table that holds a row
InitTwo == InitWith({1, 2}, InitStores(variant) \ {<<>>})

\* what the two sessions submit: two valid forms with different keys
TwoForms(v) ==
    { Form(W205, R55, Rim16, IF v = "section" THEN SecLowerA1 ELSE NoSection, <<"1">>),
      Form(W195, R55, Rim17C, IF v = "section" THEN SecB2 ELSE NoSection, <<"1">>) }

\* two client sessions that add
NextTwo ==
    \E s \in Clients :
        \/ FetchSelect(s)
        \/ FetchResolved(s)
        \/ \E f \in TwoForms(variant) : AddIssued(s, f)
        \/ \E i \in 1..MaxPending :
              \/ StoreUpdates(s, i)
              \/ StoreInserts(s, i)
              \/ StoreFails(s, i)
              \/ AddSettled(s, i)
              \/ AddFailed(s, i)

SpecTwo == InitTwo /\ [][NextTwo]_vars

\* the characters of the strings the validation specification submits
Alphabet == {"0", "1", "a", "B", "-", "."}

\* all strings over Alphabet of length at most n
Strings(n) == UNION {[1..k -> Alphabet] : k \in 0..n}

\* a form every check accepts
BaseForm(v) ==
    Form(W205, R55, Rim16, IF v = "section" THEN SecA1 ELSE NoSection, <<"1">>)

\* BaseForm with one field replaced by any string, and the forms in which
\* each field is either accepted or not
ValidateForms(v) ==
    {[BaseForm(v) EXCEPT !.w = x] : x \in Strings(MaxLen)}
    \cup {[BaseForm(v) EXCEPT !.r = x] : x \in Strings(MaxLen)}
    \cup {[BaseForm(v) EXCEPT !.rim = x] : x \in Strings(MaxLen)}
    \cup {[BaseForm(v) EXCEPT !.q = x] : x \in Strings(MaxLen)}
    \cup (IF v = "section"
          THEN {[BaseForm(v) EXCEPT !.sec = x] : x \in Strings(MaxLen)}
          ELSE {})
    \cup {Form(w, r, rim, sec, q) :
            w \in {W205, <<"2", "0">>}, r \in {R55, <<"5">>},
            rim \in {Rim16, <<"1">>},
            sec \in (IF v = "section" THEN {SecA1, <<"1", "A">>} ELSE {NoSection}),
            q \in {<<"1">>, <<"0">>}}

\* one session that has fetched a table with one row and filled in its form
InitValidate ==
    /\ variant \in {"plain", "section"}
    /\ active = {1}
    /\ store = <<Tyre(1, W205, R55, Rim16,
                      IF variant = "section" THEN SecA1 ELSE NoSection, 2)>>
    /\ nextId = 2
    /\ tyres = [s \in Clients |-> IF s = 1 THEN store ELSE <<>>]
    /\ fetch = [s \in Clients |-> Fetch(IF s = 1 THEN "resolved" ELSE "idle", <<>>)]
    /\ form \in {[s \in Clients |-> IF s = 1 THEN f ELSE BlankForm] :
                    f \in ValidateForms(variant)}
    /\ error = [s \in Clients |-> MsgNone]
    /\ removeQuantities = [s \in Clients |-> <<>>]
    /\ pending = [s \in Clients |-> <<>>]
    /\ search = [s \in Clients |-> NoTerms]
    /\ sortOrder = [s \in Clients |-> "asc"]
    /\ ops = 0
    /\ last = Event("init", 0, NoRequest)

\* the session submits the form it has filled in
NextValidate ==
    \E s \in Clients :
        \/ AddRejected(s, form[s])
        \/ AddIssued(s, form[s])
        \/ \E i \in 1..MaxPending :
              \/ StoreUpdates(s, i)
              \/ StoreInserts(s, i)
              \/ StoreFails(s, i)
              \/ AddSettled(s, i)
              \/ AddFailed(s, i)

SpecValidate == InitValidate /\ [][NextValidate]_vars

----------------------------------------------------------------------------
(* Vocabulary of the properties *)

\* the key of a record: width, ratio, rim, and section without regard to case
KeyOf(t) == <<t.tyre_width, t.ratio, t.rim, toUpperCase(t.section)>>

\* the key a submitted form asks for
KeyOfForm(f, v) ==
    <<f.w, f.r, f.rim, IF v = "section" THEN toUpperCase(f.sec) ELSE NoSection>>

\* no two entries of the sequence have the same key
UniqueKeys(list) ==
    \A i, j \in 1..Len(list) : i # j => KeyOf(list[i]) # KeyOf(list[j])

\* the sequence with the quantity of every record of that id replaced
WithQuantity(list, id, q) ==
    [k \in 1..Len(list) |->
        Tyre(list[k].id, list[k].tyre_width, list[k].ratio, list[k].rim,
             list[k].section, IF list[k].id = id THEN q ELSE list[k].quantity)]

\* the entries of the sequence whose id is not the given one, in order
RECURSIVE Without(_, _)
Without(list, id) ==
    IF Len(list) = 0 THEN <<>>
    ELSE LET rest == Without(SubSeq(list, 1, Len(list) - 1), id)
         IN  IF list[Len(list)].id = id THEN rest
             ELSE Append(rest, list[Len(list)])

\* the request a step has just put in flight
Issued(s) == pending'[s][Len(pending'[s])]

----------------------------------------------------------------------------
(* C1 *)

\* C1: in one session with no other writers, from a table with at most one
\* row per key, neither the store table nor the in-memory list ever holds
\* two records with the same key.
C1_OneRecordPerKey ==
    /\ UniqueKeys(store)
    /\ \A s \in active : UniqueKeys(tyres[s])

----------------------------------------------------------------------------
(* C2 *)

\* what a valid add must put in flight, given the list it read
C2_Decision(list, f, p) ==
    LET M == {k \in 1..Len(list) : KeyOf(list[k]) = KeyOfForm(f, variant)}
        delta == parseInt(f.q).n
    IN  /\ p.kind = "add"
        /\ p.snap = list
        /\ IF M # {}
           THEN /\ p.call = "update"
                /\ \E k \in M : /\ p.id = list[k].id
                                /\ p.quantity = list[k].quantity + delta
           ELSE /\ p.call = "insert"
                /\ p.quantity = delta
                /\ p.ins.quantity = delta
                /\ KeyOf(p.ins) = KeyOfForm(f, variant)

\* what the store call of an add does to the table
C2_StoreEffect(p) ==
    IF p.call = "update"
    THEN store' = WithQuantity(store, p.id, p.quantity)
    ELSE /\ Len(store') = Len(store) + 1
         /\ SubSeq(store', 1, Len(store)) = store
         /\ store'[Len(store')].id \notin IdsOf(store)
         /\ store'[Len(store')].quantity = p.quantity
         /\ KeyOf(store'[Len(store')]) = KeyOf(p.ins)

\* what the continuation of a successful add does to the in-memory list
C2_ListEffect(s, p) ==
    IF p.call = "update"
    THEN tyres'[s] = WithQuantity(p.snap, p.id, p.quantity)
    ELSE /\ tyres'[s] = Append(p.snap, p.data)
         /\ p.data.quantity = p.quantity
         /\ KeyOf(p.data) = KeyOf(p.ins)
         /\ p.data.id \notin IdsOf(p.snap)

\* C2: a valid add whose store call succeeds: when a record with the same key
\* is in the list the handler read, that record's quantity becomes its
\* quantity in that list plus the delta, with its id unchanged and no row
\* created, in the store and in the list; when there is none, exactly one new
\* record is created, whose quantity is the delta.
C2_AddEffect ==
    [][\A s \in Clients :
          /\ \A f \in Forms(variant) :
                AddIssued(s, f) => C2_Decision(tyres[s], f, Issued(s))
          /\ \A i \in 1..MaxPending :
                /\ (StoreUpdates(s, i) \/ StoreInserts(s, i))
                      /\ pending[s][i].kind = "add"
                   => C2_StoreEffect(pending[s][i])
                /\ AddSettled(s, i) => C2_ListEffect(s, pending[s][i])]_vars

\* an add has merged into an existing record: list and store agree on it
C2_Witness ==
    /\ last.ev = "settled"
    /\ last.req.kind = "add"
    /\ last.req.call = "update"
    /\ \E k \in 1..Len(tyres[last.client]) :
          /\ tyres[last.client][k].id = last.req.id
          /\ tyres[last.client][k].quantity = last.req.quantity
          /\ tyres[last.client][k] \in {store[j] : j \in 1..Len(store)}

----------------------------------------------------------------------------
(* C4 *)

\* C4: from a table whose rows all have quantity >= 1, every record of the
\* store table and of the in-memory list has a quantity > 0 in every
\* reachable state: a key is either absent or stocked.
C4_QuantityPositive ==
    /\ \A k \in 1..Len(store) : store[k].quantity > 0
    /\ \A s \in active : \A k \in 1..Len(tyres[s]) : tyres[s][k].quantity > 0

\* a withdraw of exactly the quantity on hand has deleted the record
C4_Witness ==
    /\ last.ev = "settled"
    /\ last.req.kind = "remove"
    /\ last.req.call = "delete"
    /\ \E k \in 1..Len(last.req.snap) :
          /\ last.req.snap[k].id = last.req.id
          /\ last.req.snap[k].quantity = last.req.removeQty
    /\ last.req.id \notin IdsOf(store)
    /\ last.req.id \notin IdsOf(tyres[last.client])

----------------------------------------------------------------------------
(* C5 *)

\* C5: the removal quantity the Remove button passes to the withdraw handler
\* is an integer >= 1, whatever was typed into the removal input.
C5_RemoveQtyAtLeastOne ==
    \A s \in active : \A i \in 1..Len(pending[s]) :
        pending[s][i].kind = "remove" => pending[s][i].removeQty >= 1

----------------------------------------------------------------------------
(* C6 *)

\* C6: within one session no add or withdraw starts while the store call of
\* an earlier one is still awaiting its response.
C6_NoOverlap == \A s \in active : Len(pending[s]) <= 1

----------------------------------------------------------------------------
(* C8 *)

\* C8: when the store call of an add or a withdraw fails, the action leaves
\* the in-memory list unchanged; the add shows the store's message as the
\* error, the withdraw changes nothing the user can see.
C8_FailureLeavesList ==
    [][\A s \in Clients : \A i \in 1..MaxPending :
          /\ AddFailed(s, i) => /\ tyres' = tyres
                                /\ error'[s] = MsgStore
          /\ RemoveFailed(s, i) => /\ tyres' = tyres
                                   /\ error' = error
                                   /\ removeQuantities' = removeQuantities
                                   /\ form' = form]_vars

\* the update of an add has failed on a list that holds records
C8_Witness ==
    /\ last.ev = "failed"
    /\ last.req.kind = "add"
    /\ last.req.call = "update"
    /\ error[last.client] = MsgStore
    /\ tyres[last.client] = last.req.snap
    /\ tyres[last.client] # <<>>

----------------------------------------------------------------------------
(* C3 *)

\* the removal quantities a withdraw can be called with
RemoveQtyRange == (0 - MaxQty)..MaxQty

\* what a withdraw must put in flight, given the list it read
C3_Decision(s, id, q) ==
    LET M == {k \in 1..Len(tyres[s]) : tyres[s][k].id = id}
    IN  IF M = {}
        THEN /\ pending' = pending
             /\ store' = store
             /\ tyres' = tyres
             /\ removeQuantities' = removeQuantities
             /\ error' = error
        ELSE \E k \in M :
                /\ Len(pending'[s]) = Len(pending[s]) + 1
                /\ Issued(s).kind = "remove"
                /\ Issued(s).id = id
                /\ Issued(s).snap = tyres[s]
                /\ IF q >= tyres[s][k].quantity
                   THEN Issued(s).call = "delete"
                   ELSE /\ Issued(s).call = "update"
                        /\ Issued(s).quantity = tyres[s][k].quantity - q

\* C3: a withdraw of q on id whose store call succeeds: when q >= the quantity
\* of the record in the list the handler read, the row is deleted from the
\* store and the record dropped from the list; when q is smaller, the record
\* stays, with the same id and that quantity minus q; when the list has no
\* record of that id, nothing changes and no store call is issued.
C3_WithdrawEffect ==
    [][\A s \in Clients :
          /\ \A id \in 1..MaxId, q \in RemoveQtyRange :
                (s \in active /\ handleRemoveTyre(s, id, q)) => C3_Decision(s, id, q)
          /\ \A i \in 1..MaxPending :
                /\ StoreDeletes(s, i) => store' = Without(store, pending[s][i].id)
                /\ (StoreUpdates(s, i) /\ pending[s][i].kind = "remove")
                      => store' = WithQuantity(store, pending[s][i].id,
                                                pending[s][i].quantity)
                /\ RemoveSettled(s, i) =>
                      tyres'[s] =
                         IF pending[s][i].call = "delete"
                         THEN Without(pending[s][i].snap, pending[s][i].id)
                         ELSE WithQuantity(pending[s][i].snap, pending[s][i].id,
                                           pending[s][i].quantity)]_vars

\* after a partial withdraw has left the row of the initial table with one
\* unit, the handler is called on an id the list does not hold
C3_Witness ==
    /\ last.ev = "not found"
    /\ \E k \in 1..Len(tyres[last.client]) :
          /\ tyres[last.client][k].id = 1
          /\ tyres[last.client][k].quantity = 1
          /\ store = <<tyres[last.client][k]>>

----------------------------------------------------------------------------
(* C7 *)

\* C7: sessions are not coordinated: whether an add inserts depends only on
\* the list of its own session, and the store appends the row of an insert
\* also when it already holds a row with that key; so two sessions that both
\* fetched a list without key K and both add K leave two rows for K.
C7_Uncoordinated ==
    [][\A s \in Clients :
          /\ \A f \in TwoForms(variant) :
                AddIssued(s, f) =>
                   (Issued(s).call = "insert"
                      <=> \A k \in 1..Len(tyres[s]) :
                             KeyOf(tyres[s][k]) # KeyOfForm(f, variant))
          /\ \A i \in 1..MaxPending :
                StoreInserts(s, i) =>
                   /\ Len(store') = Len(store) + 1
                   /\ KeyOf(store'[Len(store')]) = KeyOf(pending[s][i].ins)]_vars

\* both sessions decided Insert for one key on the non-empty list they had
\* fetched, and the store holds two rows with that key
C7_Witness ==
    \E i \in 1..Len(pending[1]), j \in 1..Len(pending[2]) :
        /\ fetch[1].phase = "resolved"
        /\ fetch[2].phase = "resolved"
        /\ pending[1][i].call = "insert"
        /\ pending[2][j].call = "insert"
        /\ pending[1][i].phase = "ok"
        /\ pending[2][j].phase = "ok"
        /\ pending[1][i].snap # <<>>
        /\ pending[2][j].snap # <<>>
        /\ KeyOf(pending[1][i].ins) = KeyOf(pending[2][j].ins)
        /\ pending[1][i].data.id # pending[2][j].data.id
        /\ \E a, b \in 1..Len(store) :
              /\ store[a] = pending[1][i].data
              /\ store[b] = pending[2][j].data

----------------------------------------------------------------------------
(* C9, C10: the shapes the fields must have, stated on the characters *)

AllIn(str, cls) == \A n \in 1..Len(str) : str[n] \in cls

WidthOk(f) == Len(f.w) = 3 /\ AllIn(f.w, Digit)

RatioOk(f) == Len(f.r) = 2 /\ AllIn(f.r, Digit)

RimOk(f) == Len(f.rim) \in {2, 3} /\ AllIn(f.rim, AlphaNum)

\* only the variant with sections has the field
SectionOk(f) ==
    variant = "section" =>
        Len(f.sec) = 2 /\ f.sec[1] \in Letter /\ f.sec[2] \in Digit

\* the quantity parses to an integer >= 1
QuantityOk(f) == ~parseInt(f.q).nan /\ parseInt(f.q).n >= 1

FormOk(f) == WidthOk(f) /\ RatioOk(f) /\ RimOk(f) /\ SectionOk(f) /\ QuantityOk(f)

\* the message of the first failing field, the quantity coming last
FirstFailure(f) ==
    IF ~WidthOk(f) THEN MsgWidth
    ELSE IF ~RatioOk(f) THEN MsgRatio
    ELSE IF ~RimOk(f) THEN MsgRim
    ELSE IF ~SectionOk(f) THEN MsgSection
    ELSE MsgQuantity

\* the step is a submission, by session s, of the form it leaves in form[s]
Submits(s) == AddRejected(s, form'[s]) \/ AddIssued(s, form'[s])

\* C9: a submission with an invalid width, ratio, rim, section or quantity
\* issues no store call and leaves the in-memory list unchanged, and the error
\* it reports is that of the first failing field in the order width, ratio,
\* rim, section, the quantity being checked after all of them.
C9_InvalidSubmission ==
    [][\A s \in Clients :
          (Submits(s) /\ ~FormOk(form'[s])) =>
             /\ pending' = pending
             /\ store' = store
             /\ tyres' = tyres
             /\ error'[s] = FirstFailure(form'[s])]_vars

\* a form whose ratio, rim and quantity all fail was rejected for its ratio,
\* on a list that holds records
C9_Witness ==
    /\ last.ev = "rejected"
    /\ WidthOk(form[last.client])
    /\ ~RatioOk(form[last.client])
    /\ ~RimOk(form[last.client])
    /\ ~QuantityOk(form[last.client])
    /\ error[last.client] = MsgRatio
    /\ tyres[last.client] # <<>>
    /\ pending[last.client] = <<>>

\* C10: a submitted form goes on to the store exactly when its width is 3
\* digits, its ratio 2 digits, its rim 2 to 3 letters or digits, its section
\* (variant with sections) a letter and a digit, and its quantity parses to an
\* integer >= 1; each field on its own is accepted exactly in that shape.
C10_AcceptedShapes ==
    [][\A s \in Clients :
          /\ AddIssued(s, form'[s]) => FormOk(form'[s])
          /\ AddRejected(s, form'[s]) => ~FormOk(form'[s])]_vars

\* a form with a rim of three characters, letters of both cases among them,
\* has gone on to the store
C10_Witness ==
    \E s \in active : \E i \in 1..Len(pending[s]) :
        /\ pending[s][i].call = "insert"
        /\ Len(pending[s][i].ins.rim) = 3
        /\ \E n \in 1..3 : pending[s][i].ins.rim[n] \in Lower
        /\ \E n \in 1..3 : pending[s][i].ins.rim[n] \in Upper
        /\ form[s].rim = pending[s][i].ins.rim

----------------------------------------------------------------------------
(* C11 *)

\* the calls of session s that the store has not executed yet
Unexecuted(s, pend) == {i \in 1..Len(pend[s]) : pend[s][i].phase = "sent"}

\* the ways the calls in flight of session s may change in one step: not at
\* all; one call added by one user event; one call executed by the store,
\* once; one answered call taken up by its handler, which then ends
C11_RoundTrip(s) ==
    \/ pending'[s] = pending[s]
    \/ /\ ops' = ops + 1
       /\ Len(pending'[s]) = Len(pending[s]) + 1
       /\ SubSeq(pending'[s], 1, Len(pending[s])) = pending[s]
       /\ Issued(s).phase = "sent"
       /\ store' = store
    \/ \E i \in 1..Len(pending[s]) :
          /\ ops' = ops
          /\ Len(pending'[s]) = Len(pending[s])
          /\ pending[s][i].phase = "sent"
          /\ pending'[s][i].phase \in {"ok", "err"}
          /\ \A j \in 1..Len(pending[s]) : j # i => pending'[s][j] = pending[s][j]
          /\ pending'[s][i].phase = "err" => store' = store
    \/ \E i \in 1..Len(pending[s]) :
          /\ ops' = ops
          /\ pending[s][i].phase \in {"ok", "err"}
          /\ pending'[s] = RemoveAt(pending[s], i)
          /\ store' = store

\* C11: a user action makes at most one round trip to the store and is never
\* retried: a valid add puts exactly one update or insert in flight, a Remove
\* click on a listed id exactly one delete or update, the store executes a call
\* once, the table changes only when a call is executed, and the handler of a
\* failed call ends without another call.
C11_OneRoundTrip ==
    [][/\ \A s \in Clients :
            /\ C11_RoundTrip(s)
            /\ \A f \in Forms(variant) :
                  AddIssued(s, f) =>
                     /\ Len(pending'[s]) = Len(pending[s]) + 1
                     /\ Issued(s).call \in {"update", "insert"}
            /\ \A id \in 1..MaxId :
                  ClickRemove(s, id) =>
                     /\ Len(pending'[s]) = Len(pending[s]) + 1
                     /\ Issued(s).call \in {"delete", "update"}
            /\ \A i \in 1..MaxPending :
                  (AddFailed(s, i) \/ RemoveFailed(s, i)) =>
                     /\ pending'[s] = RemoveAt(pending[s], i)
                     /\ Cardinality(Unexecuted(s, pending'))
                           <= Cardinality(Unexecuted(s, pending))
       /\ store' # store =>
             \E s \in Clients : \E i \in Unexecuted(s, pending) :
                 /\ Len(pending'[s]) = Len(pending[s])
                 /\ pending'[s][i].phase = "ok"]_vars

\* the only action of the run was an add whose store call failed: its handler
\* has ended, nothing is in flight and the table is as it was
C11_Witness ==
    /\ ops = 1
    /\ last.ev = "failed"
    /\ last.req.kind = "add"
    /\ pending[last.client] = <<>>
    /\ store \in InitStores(variant)

----------------------------------------------------------------------------
(* The displayed rows: filteredTyres, derived on every render from the     *)
(* list, the search fields and the sort order                              *)

\* String.prototype.toLowerCase, one character
ToLowerChar(c) ==
    IF c \in Upper THEN LowerSeq[CHOOSE i \in 1..26 : UpperSeq[i] = c] ELSE c

toLowerCase(str) == [i \in 1..Len(str) |-> ToLowerChar(str[i])]

\* String.prototype.includes
includes(str, sub) ==
    \E b \in 0..Len(str) :
        /\ b + Len(sub) <= Len(str)
        /\ SubSeq(str, b + 1, b + Len(sub)) = sub

\* Filter that keeps a record when any non-empty search field matches
FilterMatch_Any(tyre, t, v) ==
    \/ t = NoTerms
    \/ t.w # <<>> /\ includes(toLowerCase(tyre.tyre_width), toLowerCase(t.w))
    \/ t.r # <<>> /\ includes(toLowerCase(tyre.ratio), toLowerCase(t.r))
    \/ t.rim # <<>> /\ includes(toLowerCase(tyre.rim), toLowerCase(t.rim))
    \/ /\ v = "section" /\ t.sec # <<>>
       /\ includes(toLowerCase(tyre.section), toLowerCase(t.sec))

\* the callback of tyres.filter: an empty search field is falsy and skipped;
\* the variant without sections has no searchSection
FilterMatch(tyre, t, v) ==
    /\ t.w # <<>> => includes(toLowerCase(tyre.tyre_width), toLowerCase(t.w))
    /\ t.r # <<>> => includes(toLowerCase(tyre.ratio), toLowerCase(t.r))
    /\ t.rim # <<>> => includes(toLowerCase(tyre.rim), toLowerCase(t.rim))
    /\ (v = "section" /\ t.sec # <<>>)
          => includes(toLowerCase(tyre.section), toLowerCase(t.sec))

RECURSIVE Filter(_, _, _)
\* tyres.filter(...): a new array of the matching records, in list order
Filter(list, t, v) ==
    IF list = <<>> THEN <<>>
    ELSE IF FilterMatch(Head(list), t, v)
         THEN <<Head(list)>> \o Filter(Tail(list), t, v)
         ELSE Filter(Tail(list), t, v)

\* compareWidth with the two directions exchanged
compareWidth_Swapped(a, b, order) ==
    LET aNum == parseInt(a.tyre_width).n
        bNum == parseInt(b.tyre_width).n
    IN  IF order = "asc" THEN bNum - aNum ELSE aNum - bNum

\* the comparator of filteredTyres.sort (the widths of the tables are numeric)
compareWidth(a, b, order) ==
    LET aNum == parseInt(a.tyre_width).n
        bNum == parseInt(b.tyre_width).n
    IN  IF order = "asc" THEN aNum - bNum ELSE bNum - aNum

\* InsertSorted placing the record before the records it compares equal to
InsertSorted_Unstable(sorted, x, order) ==
    LET after == {i \in 1..Len(sorted) : compareWidth(sorted[i], x, order) >= 0}
        k == IF after = {} THEN Len(sorted) + 1
             ELSE CHOOSE i \in after : \A j \in after : i <= j
    IN  SubSeq(sorted, 1, k - 1) \o <<x>> \o SubSeq(sorted, k, Len(sorted))

\* the place of a record among the records sorted before it: in front of the
\* first one the comparator puts after it
InsertSorted(sorted, x, order) ==
    LET after == {i \in 1..Len(sorted) : compareWidth(sorted[i], x, order) > 0}
        k == IF after = {} THEN Len(sorted) + 1
             ELSE CHOOSE i \in after : \A j \in after : i <= j
    IN  SubSeq(sorted, 1, k - 1) \o <<x>> \o SubSeq(sorted, k, Len(sorted))

RECURSIVE Sort(_, _)
\* Array.prototype.sort with the comparator, a stable sort
Sort(list, order) ==
    IF list = <<>> THEN <<>>
    ELSE InsertSorted(Sort(SubSeq(list, 1, Len(list) - 1), order),
                      list[Len(list)], order)

\* the rows session s displays
filteredTyres(s) == Sort(Filter(tyres[s], search[s], variant), sortOrder[s])

\* onChange of a search field
TypeSearch(s, field, txt) ==
    /\ s \in active
    /\ ops < MaxOps
    /\ field = "sec" => variant = "section"
    /\ search' = [search EXCEPT ![s][field] = txt]
    /\ ops' = ops + 1
    /\ UNCHANGED <<sortOrder, variant, active, store, nextId, tyres, fetch, form,
                   error, removeQuantities, pending, last>>

\* onChange of the sort selector
SelectSort(s, order) ==
    /\ s \in active
    /\ ops < MaxOps
    /\ sortOrder' = [sortOrder EXCEPT ![s] = order]
    /\ ops' = ops + 1
    /\ UNCHANGED <<search, variant, active, store, nextId, tyres, fetch, form,
                   error, removeQuantities, pending, last>>

\* the rows the tables of the display specification are made of
RowSpecs(v) ==
    { [w |-> W205, r |-> R55, rim |-> Rim16, sec |-> <<"C", "1">>],
      [w |-> W195, r |-> <<"9", "5">>, rim |-> <<"2", "1", "6">>, sec |-> SecB2],
      [w |-> <<"2", "1", "5">>, r |-> R55, rim |-> <<"7">>, sec |-> <<"c", "1">>],
      [w |-> W195, r |-> R55, rim |-> Rim17C, sec |-> <<"C", "1">>] }

\* the tables of at most MaxRows rows, the ids in table order
DisplayTables(v) ==
    UNION { { [i \in 1..n |->
                 Tyre(i, c[i].w, c[i].r, c[i].rim,
                      IF v = "section" THEN c[i].sec ELSE NoSection, 1)] :
              c \in [1..n -> RowSpecs(v)] } : n \in 0..MaxRows }

\* what is typed into a search field
SearchTexts == { <<>>, <<"1", "6">>, <<"C">>, <<"9">> }

\* one session that has fetched its table
InitDisplay ==
    /\ variant \in {"plain", "section"}
    /\ active = {1}
    /\ store \in DisplayTables(variant)
    /\ nextId = Len(store) + 1
    /\ tyres = [s \in Clients |-> IF s = 1 THEN store ELSE <<>>]
    /\ fetch = [s \in Clients |-> Fetch(IF s = 1 THEN "resolved" ELSE "idle", <<>>)]
    /\ form = [s \in Clients |-> BlankForm]
    /\ error = [s \in Clients |-> MsgNone]
    /\ removeQuantities = [s \in Clients |-> <<>>]
    /\ pending = [s \in Clients |-> <<>>]
    /\ search = [s \in Clients |-> NoTerms]
    /\ sortOrder = [s \in Clients |-> "asc"]
    /\ ops = 0
    /\ last = Event("init", 0, NoRequest)

\* the session searches and sorts
NextDisplay ==
    \E s \in Clients :
        \/ \E field \in {"w", "r", "rim", "sec"}, txt \in SearchTexts :
              TypeSearch(s, field, txt)
        \/ \E order \in {"asc", "desc"} : SelectSort(s, order)

SpecDisplay == InitDisplay /\ [][NextDisplay]_vars

----------------------------------------------------------------------------
(* C12 *)

\* two characters that differ at most in letter case
EqualNoCase(a, b) == ToUpperChar(a) = ToUpperChar(b)

\* the term occurs in the value at some position, letter case aside
Contains(value, term) ==
    \E b \in 0..(Len(value) - Len(term)) :
        \A k \in 1..Len(term) : EqualNoCase(value[b + k], term[k])

\* the search fields of the variant
SearchFields(v) ==
    IF v = "section" THEN {"w", "r", "rim", "sec"} ELSE {"w", "r", "rim"}

\* the value of a record in the field a search term is for
FieldOf(tyre, field) ==
    CASE field = "w" -> tyre.tyre_width
      [] field = "r" -> tyre.ratio
      [] field = "rim" -> tyre.rim
      [] field = "sec" -> tyre.section

\* the positions of the records every non-empty term is contained in
Kept(list, t) ==
    {i \in 1..Len(list) :
        \A field \in SearchFields(variant) :
            t[field] # <<>> => Contains(FieldOf(list[i], field), t[field])}

\* the records at the positions K, in list order
Subsequence(list, K) ==
    [n \in 1..Cardinality(K) |->
        list[CHOOSE i \in K : Cardinality({j \in K : j <= i}) = n]]

\* C12: the filter retains a record exactly when every search field whose term
\* is not empty has a term that the record's value contains as a substring,
\* letter case aside (the section only in the variant with sections); empty
\* terms retain everything, and the retained records keep their list order.
C12_FilterRetains ==
    \A s \in active :
        Filter(tyres[s], search[s], variant)
           = Subsequence(tyres[s], Kept(tyres[s], search[s]))

\* the rims 16, 216 and 7 searched for "16": the first two are retained
C12_Witness ==
    /\ [i \in 1..Len(tyres[1]) |-> tyres[1][i].rim]
          = << <<"1", "6">>, <<"2", "1", "6">>, <<"7">> >>
    /\ search[1] = Terms(<<>>, <<>>, <<"1", "6">>, <<>>)
    /\ Filter(tyres[1], search[1], variant) = SubSeq(tyres[1], 1, 2)

----------------------------------------------------------------------------
(* C13 *)

\* the integer a width of three digits stands for
WidthValue(t) ==
    100 * DigitVal(t.tyre_width[1]) + 10 * DigitVal(t.tyre_width[2])
       + DigitVal(t.tyre_width[3])

\* the position of a record in a sequence of records with different ids
PositionIn(list, t) == CHOOSE k \in 1..Len(list) : list[k].id = t.id

Reverse(list) == [i \in 1..Len(list) |-> list[Len(list) + 1 - i]]

\* shown holds the records of list, ordered by width in the given direction,
\* records of equal width in the order they have in list
OrderedByWidth(shown, list, order) ==
    /\ Len(shown) = Len(list)
    /\ {shown[i] : i \in 1..Len(shown)} = {list[i] : i \in 1..Len(list)}
    /\ \A i, j \in 1..Len(shown) :
          i < j =>
             /\ order = "asc" => WidthValue(shown[i]) <= WidthValue(shown[j])
             /\ order = "desc" => WidthValue(shown[i]) >= WidthValue(shown[j])
             /\ WidthValue(shown[i]) = WidthValue(shown[j])
                   => PositionIn(list, shown[i]) < PositionIn(list, shown[j])

\* C13: the displayed rows are the filtered records ordered by the integer
\* value of their width, non-decreasing when the direction is ascending and
\* non-increasing when it is descending, records of equal width staying in
\* list order in both directions; when all widths differ, the descending
\* order is the reverse of the ascending one.
C13_SortedByWidth ==
    \A s \in active :
        LET filtered == Filter(tyres[s], search[s], variant)
        IN  /\ OrderedByWidth(filteredTyres(s), filtered, sortOrder[s])
            /\ OrderedByWidth(Sort(filtered, "asc"), filtered, "asc")
            /\ OrderedByWidth(Sort(filtered, "desc"), filtered, "desc")
            /\ (\A i, j \in 1..Len(filtered) :
                   i # j => WidthValue(filtered[i]) # WidthValue(filtered[j]))
                  => Sort(filtered, "desc") = Reverse(Sort(filtered, "asc"))

\* a descending display of three records, two of them of equal width, that
\* is neither the list order nor its reverse
C13_Witness ==
    /\ sortOrder[1] = "desc"
    /\ Len(filteredTyres(1)) = 3
    /\ WidthValue(filteredTyres(1)[2]) = WidthValue(filteredTyres(1)[3])
    /\ WidthValue(filteredTyres(1)[1]) > WidthValue(filteredTyres(1)[2])
    /\ filteredTyres(1) # tyres[1]
    /\ filteredTyres(1) # Reverse(tyres[1])

----------------------------------------------------------------------------
(* C14 *)

\* C14: deriving the display is idempotent: filtering the filtered records
\* again with the same terms, and sorting the sorted records again in the
\* same direction, give the same sequence.
C14_Idempotent ==
    \A s \in active :
        LET filtered == Filter(tyres[s], search[s], variant)
        IN  /\ Filter(filtered, search[s], variant) = filtered
            /\ Sort(filteredTyres(s), sortOrder[s]) = filteredTyres(s)
            /\ \A order \in {"asc", "desc"} :
                  Sort(Sort(tyres[s], order), order) = Sort(tyres[s], order)

\* the terms drop a record and the direction moves one: neither the filter
\* nor the sort is the identity on this list
C14_Witness ==
    /\ Len(Filter(tyres[1], search[1], variant)) < Len(tyres[1])
    /\ filteredTyres(1) # Filter(tyres[1], search[1], variant)
    /\ Filter(filteredTyres(1), search[1], variant) = filteredTyres(1)
    /\ Sort(filteredTyres(1), sortOrder[1]) = filteredTyres(1)

----------------------------------------------------------------------------
(* C15 *)

\* two strings that differ at most in letter case
SameNoCase(a, b) ==
    /\ Len(a) = Len(b)
    /\ \A n \in 1..Len(a) : EqualNoCase(a[n], b[n])

\* the records of the list with the width, ratio and rim of the form and its
\* section up to letter case
SameButCase(list, f) ==
    {k \in 1..Len(list) :
        /\ list[k].tyre_width = f.w
        /\ list[k].ratio = f.r
        /\ list[k].rim = f.rim
        /\ SameNoCase(list[k].section, f.sec)}

NoLowerCase(str) == \A n \in 1..Len(str) : str[n] \notin Lower

\* C15: in the variant with sections, an add whose width, ratio and rim are
\* those of a record of the list and whose section differs from that record's
\* at most in letter case is an Increase of that record, not an insert; and
\* every row the application inserts, in the store and in the list, has its
\* section in upper case.
C15_SectionCase ==
    [][variant = "section" =>
         \A s \in Clients :
            /\ \A f \in Forms(variant) :
                  (AddIssued(s, f) /\ SameButCase(tyres[s], f) # {}) =>
                     /\ Issued(s).call = "update"
                     /\ \E k \in SameButCase(tyres[s], f) :
                           /\ Issued(s).id = tyres[s][k].id
                           /\ Issued(s).quantity
                                 = tyres[s][k].quantity + parseInt(f.q).n
            /\ \A f \in Forms(variant) :
                  (AddIssued(s, f) /\ Issued(s).call = "insert") =>
                     /\ NoLowerCase(Issued(s).ins.section)
                     /\ SameNoCase(Issued(s).ins.section, f.sec)
            /\ \A i \in 1..MaxPending :
                  /\ StoreInserts(s, i) =>
                        /\ Len(store') = Len(store) + 1
                        /\ NoLowerCase(store'[Len(store')].section)
                        /\ store'[Len(store')].section = pending[s][i].ins.section
                  /\ (AddSettled(s, i) /\ pending[s][i].call = "insert") =>
                        NoLowerCase(tyres'[s][Len(tyres'[s])].section)]_vars

\* an add typed with section a1 is in flight as an Increase of the record the
\* list holds with section A1
C15_Witness ==
    /\ variant = "section"
    /\ \E s \in active : \E i \in 1..Len(pending[s]) :
          /\ pending[s][i].kind = "add"
          /\ pending[s][i].call = "update"
          /\ form[s].sec = SecLowerA1
          /\ \E k \in 1..Len(pending[s][i].snap) :
                /\ pending[s][i].snap[k].id = pending[s][i].id
                /\ pending[s][i].snap[k].section = SecA1
                /\ pending[s][i].quantity
                      = pending[s][i].snap[k].quantity + parseInt(form[s].q).n

----------------------------------------------------------------------------
(* C16 *)

\* the pending removal quantities of session s are those of rq, except that
\* the one of id is 1
ResetTo1(s, rq, id) ==
    /\ id \in DOMAIN removeQuantities'[s]
    /\ removeQuantities'[s][id] = 1
    /\ \A j \in 1..MaxId :
          j # id =>
             /\ j \in DOMAIN removeQuantities'[s] <=> j \in DOMAIN rq
             /\ j \in DOMAIN rq => removeQuantities'[s][j] = rq[j]
             /\ RemoveQtyOf(removeQuantities'[s], j) = RemoveQtyOf(rq, j)

\* C16: when the store call of a withdraw has succeeded, the handler resets
\* the pending removal quantity of that id to 1 and leaves those of all other
\* ids as they are; when the call fails, when the id is not in the list, and
\* while the call is in flight, no pending removal quantity changes.
C16_RemoveQtyReset ==
    [][\A s \in Clients :
          /\ \A i \in 1..MaxPending :
                /\ RemoveSettled(s, i) =>
                      /\ ResetTo1(s, removeQuantities[s], pending[s][i].id)
                      /\ \A c \in Clients \ {s} :
                            removeQuantities'[c] = removeQuantities[c]
                /\ (RemoveFailed(s, i) \/ StoreDeletes(s, i) \/ StoreUpdates(s, i)
                       \/ StoreFails(s, i))
                      => removeQuantities' = removeQuantities
          /\ \A id \in 1..MaxId, q \in RemoveQtyRange :
                (s \in active /\ handleRemoveTyre(s, id, q))
                   => removeQuantities' = removeQuantities]_vars

\* a withdraw on one id has succeeded while -1 was typed for another id: the
\* first is at 1, the other still at -1
C16_Witness ==
    /\ last.ev = "settled"
    /\ last.req.kind = "remove"
    /\ last.req.id \in DOMAIN removeQuantities[last.client]
    /\ removeQuantities[last.client][last.req.id] = 1
    /\ \E j \in DOMAIN removeQuantities[last.client] :
          /\ j # last.req.id
          /\ removeQuantities[last.client][j] = 0 - 1

----------------------------------------------------------------------------
(* One session whose actions run one at a time *)

\* the select-all has set the list and no handler is awaiting the store
Idle(s) == fetch[s].phase = "resolved" /\ pending[s] = <<>>

\* the tables the session starts from
SequentialStores(v) == InitStores(v) \cup HandlerStores(v)

InitSequential == InitWith({1}, SequentialStores(variant))

\* the user acts only when the session is idle
NextSequential ==
    \E s \in Clients :
        \/ FetchSelect(s)
        \/ FetchResolved(s)
        \/ Idle(s) /\ \E f \in Forms(variant) : AddRejected(s, f)
        \/ Idle(s) /\ \E f \in Forms(variant) : AddIssued(s, f)
        \/ Idle(s) /\ \E id \in 1..MaxId, txt \in RemoveTexts : TypeRemove(s, id, txt)
        \/ Idle(s) /\ \E id \in 1..MaxId : ClickRemove(s, id)
        \/ \E i \in 1..MaxPending :
              \/ StoreUpdates(s, i)
              \/ StoreInserts(s, i)
              \/ StoreDeletes(s, i)
              \/ StoreFails(s, i)
              \/ AddSettled(s, i)
              \/ AddFailed(s, i)
              \/ RemoveSettled(s, i)
              \/ RemoveFailed(s, i)

SpecSequential == InitSequential /\ [][NextSequential]_vars

----------------------------------------------------------------------------
(* C17 *)

\* the two sequences hold the same records
SameRecords(a, b) ==
    /\ Len(a) = Len(b)
    /\ \A t \in {a[i] : i \in 1..Len(a)} \cup {b[i] : i \in 1..Len(b)} :
          Cardinality({i \in 1..Len(a) : a[i] = t})
             = Cardinality({i \in 1..Len(b) : b[i] = t})

\* C17: in a single session without other writers whose select-all has
\* succeeded and whose actions run one at a time, whenever no action is in
\* progress (after the fetch and after every completed add or withdraw, its
\* store call having succeeded or failed) the in-memory list holds the same
\* records, ids, keys and quantities, as the store table.
C17_ListMatchesStore ==
    \A s \in active : Idle(s) => SameRecords(tyres[s], store)

\* the second action of the session, an add that inserted a row, has
\* completed: list and table hold the same two or more records
C17_Witness ==
    /\ ops = 2
    /\ last.ev = "settled"
    /\ last.req.kind = "add"
    /\ last.req.call = "insert"
    /\ Idle(last.client)
    /\ Len(store) >= 2
    /\ tyres[last.client] = store

----------------------------------------------------------------------------
(* A session that adds from the moment it is mounted, one add at a time *)

NextMount ==
    \E s \in Clients :
        \/ FetchSelect(s)
        \/ FetchResolved(s)
        \/ pending[s] = <<>> /\ \E f \in Forms(variant) : AddIssued(s, f)
        \/ \E i \in 1..MaxPending :
              \/ StoreUpdates(s, i)
              \/ StoreInserts(s, i)
              \/ StoreFails(s, i)
              \/ AddSettled(s, i)
              \/ AddFailed(s, i)

SpecMount == Init /\ [][NextMount]_vars

----------------------------------------------------------------------------
(* C18 *)

\* C18: the select-all of the mount effect is never lost or clobbered: once it
\* and the adds submitted before it completed have all completed, the list
\* holds every row of the table (the rows the fetch returned and the rows the
\* adds inserted), and no add has inserted a second row for a key the table
\* already held.
C18_FetchNotClobbered ==
    \A s \in active :
        (fetch[s].phase = "resolved" /\ pending[s] = <<>>) =>
           /\ IdsOf(store) \subseteq IdsOf(tyres[s])
           /\ UniqueKeys(store)

----------------------------------------------------------------------------
(* C19 *)

RECURSIVE SumQuantity(_)
\* the stock a sequence of records adds up to
SumQuantity(list) ==
    IF list = <<>> THEN 0 ELSE Head(list).quantity + SumQuantity(Tail(list))

\* every record of that id in after has at most the quantity it has in before
NotMore(before, after, id) ==
    \A i \in 1..Len(before), j \in 1..Len(after) :
        (before[i].id = id /\ after[j].id = id)
           => after[j].quantity <= before[i].quantity

\* C19: a remove never increases stock: the store call of every remove the
\* Remove buttons can issue leaves the targeted row with at most the quantity
\* it had and does not let the sum of the quantities of the table grow, and
\* the handler leaves the record of the list with at most the quantity it had.
C19_RemoveNeverIncreases ==
    [][\A s \in Clients : \A i \in 1..MaxPending :
          /\ ((StoreUpdates(s, i) \/ StoreDeletes(s, i))
                 /\ pending[s][i].kind = "remove")
                => /\ SumQuantity(store') <= SumQuantity(store)
                   /\ NotMore(store, store', pending[s][i].id)
          /\ RemoveSettled(s, i)
                => NotMore(tyres[s], tyres'[s], pending[s][i].id)]_vars

----------------------------------------------------------------------------
(* C20 *)

\* after holds the records of before, in order, the one of that id with
\* another quantity at most
OnlyQuantityOf(before, after, id) ==
    /\ Len(after) = Len(before)
    /\ \A k \in 1..Len(before) :
          IF before[k].id = id
          THEN /\ after[k].id = id
               /\ KeyOf(after[k]) = KeyOf(before[k])
               /\ after[k].section = before[k].section
          ELSE after[k] = before[k]

\* C20: an add or a withdraw changes at most the targeted record of the
\* in-memory list: an Increase or a Decrease keeps every record at its
\* position, the targeted one with its id and key, the others as they are;
\* an Insert appends one record at the end; a Delete takes the targeted
\* record out and keeps the others in order; a failed action and a change of
\* the search terms or of the sort direction leave the list as it is.
C20_OnlyTargetChanges ==
    [][\A s \in Clients :
          /\ \A i \in 1..MaxPending :
                /\ (AddSettled(s, i) \/ RemoveSettled(s, i)) =>
                      CASE pending[s][i].call = "update" ->
                              OnlyQuantityOf(tyres[s], tyres'[s], pending[s][i].id)
                        [] pending[s][i].call = "insert" ->
                              /\ Len(tyres'[s]) = Len(tyres[s]) + 1
                              /\ SubSeq(tyres'[s], 1, Len(tyres[s])) = tyres[s]
                        [] pending[s][i].call = "delete" ->
                              tyres'[s] = Without(tyres[s], pending[s][i].id)
                /\ (AddFailed(s, i) \/ RemoveFailed(s, i)) => tyres' = tyres
          /\ \A field \in {"w", "r", "rim", "sec"}, txt \in SearchTexts :
                TypeSearch(s, field, txt) => tyres' = tyres
          /\ \A order \in {"asc", "desc"} : SelectSort(s, order) => tyres' = tyres]_vars

====
